---- MODULE Spec2Model ----
(***************************************************************************)
(* smooth-bevy-cameras: the FPS and the Unreal camera controllers.         *)
(*                                                                         *)
(* Each controller is a pair of Bevy systems: default_input_map turns the  *)
(* frame's raw input into ControlEvents, control_system reads the events   *)
(* and moves the LookTransform (eye, target) of the first enabled camera.  *)
(*                                                                         *)
(* Numbers.  f64 values are modelled on an exact grid.                     *)
(*   - a length (a sensitivity, a radius, an event's translation) is an    *)
(*     integer number of length units;                                     *)
(*   - a unit vector is an integer vector of Euclidean length Den, and a   *)
(*     point is an integer vector in steps of 1/Den length unit, so that   *)
(*     length * unit vector is exact;                                      *)
(*   - a yaw is a number of quarter turns, a pitch an index into           *)
(*     PitchTable, whose entries are exact rational points of the unit     *)
(*     circle (cos, sin) = (c/Den, s/Den); index Vertical is straight up.  *)
(* The only rounding is in radius(): the distance is rounded to the        *)
(* nearest length unit, a non-zero distance never to zero (f64 has relative*)
(* precision).                                                             *)
(***************************************************************************)
EXTENDS Integers, Sequences, FiniteSets, TLC

(* ------------------------------ bounds -------------------------------- *)

\* Frames per behaviour.
MaxFrames == 2
\* Largest pointer-motion component (one MouseMotion event) in a frame.
MaxDelta == 1
\* Largest initial distance between eye and target, in length units.
MaxRadius == 2
\* Largest number of held keys, motion events and wheel events together in a
\* frame of Spec.
MaxSignals == 1
\* Largest wheel delta in a frame, in notches.
MaxWheel == 2
\* Cameras in the world.
NumCams == 2

Cams == 1..NumCams

(* ----------------------------- vectors -------------------------------- *)

V3(x, y, z) == <<x, y, z>>
V2(x, y) == <<x, y>>
Zero3 == V3(0, 0, 0)
Zero2 == V2(0, 0)
Add3(a, b) == V3(a[1] + b[1], a[2] + b[2], a[3] + b[3])
Sub3(a, b) == V3(a[1] - b[1], a[2] - b[2], a[3] - b[3])
Scale3(k, a) == V3(k * a[1], k * a[2], k * a[3])
Add2(a, b) == V2(a[1] + b[1], a[2] + b[2])
Scale2(k, a) == V2(k * a[1], k * a[2])
\* DVec2 * DVec2 is component-wise.
Mul2(a, b) == V2(a[1] * b[1], a[2] * b[2])
LengthSquared3(a) == a[1] * a[1] + a[2] * a[2] + a[3] * a[3]
LengthSquared2(a) == a[1] * a[1] + a[2] * a[2]
Abs(n) == IF n < 0 THEN -n ELSE n
Max(a, b) == IF a < b THEN b ELSE a
Min(a, b) == IF a < b THEN a ELSE b

(* ----------------------------- LookAngles ----------------------------- *)

\* (cos, sin) of the representable pitches, as numerators over Den.
PitchTable == <<[c |-> 25, s |-> 0], [c |-> 15, s |-> 20],
                [c |-> 7, s |-> 24], [c |-> 0, s |-> 25]>>
Den == PitchTable[1].c
\* The pitch index of straight up; -Vertical is straight down.
Vertical == Len(PitchTable) - 1
\* The steepest pitch the singularity guard allows (pi/2 - eps).
MaxPitch == Vertical - 1

PitchCos(p) == PitchTable[Abs(p) + 1].c
PitchSin(p) == IF p < 0 THEN -PitchTable[Abs(p) + 1].s ELSE PitchTable[Abs(p) + 1].s
\* sin and cos of a yaw of q quarter turns.
SinQ(q) == <<0, 1, 0, -1>>[(q % 4) + 1]
CosQ(q) == <<1, 0, -1, 0>>[(q % 4) + 1]

DVec3_X == V3(Den, 0, 0)
DVec3_Y == V3(0, Den, 0)
DVec3_Z == V3(0, 0, Den)

\* The singularity guard: pitch clamped into [-pi/2 + eps, pi/2 - eps].
ClampPitch(p) == Max(-MaxPitch, Min(MaxPitch, p))

\* LookAngles::unit_vector: the unit vector (length Den) of (yaw, pitch); yaw 0
\* looks along +Z, a positive pitch looks up.
unit_vector(a) ==
    V3(PitchCos(a.pitch) * SinQ(a.yaw), PitchSin(a.pitch),
       PitchCos(a.pitch) * CosQ(a.yaw))

\* LookAngles::from_vector: pitch = asin(d.y), yaw = atan2 of the horizontal
\* part, the pitch then clamped by the singularity guard.
from_vector(d) ==
    LET p == CHOOSE i \in -Vertical..Vertical : PitchSin(i) = d[2]
        q == IF d[1] > 0 THEN 1
             ELSE IF d[1] < 0 THEN 3
             ELSE IF d[3] < 0 THEN 2 ELSE 0
    IN  [yaw |-> q, pitch |-> ClampPitch(p)]

add_yaw(a, delta) == [a EXCEPT !.yaw = a.yaw + delta]
add_pitch(a, delta) == [a EXCEPT !.pitch = ClampPitch(a.pitch + delta)]
\* assert_not_looking_up: TRUE when the assertion passes.
assert_not_looking_up(a) == Abs(a.pitch) < Vertical

\* DQuat::from_axis_angle(DVec3::Y, yaw) * v, for the three axes.
YawRotX(q) == V3(Den * CosQ(q), 0, -Den * SinQ(q))
YawRotY(q) == DVec3_Y
YawRotZ(q) == V3(Den * SinQ(q), 0, Den * CosQ(q))

(* ---------------------------- LookTransform --------------------------- *)

\* LookTransform::radius: distance(eye, target) in length units, rounded to the
\* nearest unit and never from a non-zero distance to zero.
radius(t) ==
    LET v == Sub3(t.target, t.eye)
        n2 == LengthSquared3(v)
        top == (Abs(v[1]) + Abs(v[2]) + Abs(v[3])) \div Den + 1
        k == CHOOSE i \in 0..top :
                 /\ (i = 0 \/ (2 * i - 1) * (2 * i - 1) * Den * Den <= 4 * n2)
                 /\ 4 * n2 < (2 * i + 1) * (2 * i + 1) * Den * Den
    IN  IF n2 = 0 THEN 0 ELSE Max(1, k)

\* Option<T>: None, or Some(x).
None == <<>>
Some(x) == <<x>>
Unwrap(o) == o[1]
\* LookTransform::look_direction: normalize(target - eye), None when eye = target.
look_direction(t) ==
    IF t.eye = t.target THEN None
    ELSE LET v == Sub3(t.target, t.eye)
             k == radius(t)
         IN  Some(V3(v[1] \div k, v[2] \div k, v[3] \div k))

(* ------------------------------- state -------------------------------- *)

VARIABLES
    kind,         \* "fps" or "unreal": which plugin the app runs
    controllers,  \* camera -> its FpsCameraController / UnrealCameraController
    transforms,   \* camera -> its LookTransform [eye, target]
    events,       \* Events<ControlEvent>: the unread events of its two buffers
    stage,        \* "idle" between frames, "update" while the Update stage runs
    input,        \* the raw input default_input_map read this frame
    ran,          \* the systems of the Update stage that have run this frame
    emitted,      \* the events default_input_map sent this frame
    outcome,      \* how control_system ended this frame
    frame,        \* frames begun
    panicked      \* a system panicked: the app is gone

vars == <<kind, controllers, transforms, events, stage, input, ran, emitted, outcome,
          frame, panicked>>

NoInput == None
Idle == "idle"
Update == "update"

Rotate(d) == [type |-> "Rotate", d |-> d]
TranslateEye(d) == [type |-> "TranslateEye", d |-> d]
Locomotion(d) == [type |-> "Locomotion", d |-> d]

FindAny(ctrls, c) == IF c > NumCams THEN None ELSE Some(c)

RECURSIVE FindLastEnabled(_, _)
FindLastEnabled(ctrls, c) ==
    IF c > NumCams THEN None
    ELSE IF FindLastEnabled(ctrls, c + 1) # None THEN FindLastEnabled(ctrls, c + 1)
    ELSE IF ctrls[c].enabled THEN Some(c)
    ELSE None

\* controllers.iter().find(|c| c.enabled): cameras in iteration order.
RECURSIVE FindEnabled(_, _)
FindEnabled(ctrls, c) ==
    IF c > NumCams THEN None
    ELSE IF ctrls[c].enabled THEN Some(c)
    ELSE FindEnabled(ctrls, c + 1)

ActiveCamera == FindEnabled(controllers, 1)

RECURSIVE SumMotion(_)
SumMotion(ms) == IF ms = <<>> THEN Zero2 ELSE Add2(Head(ms), SumMotion(Tail(ms)))

RECURSIVE SumWheel(_)
SumWheel(ws) == IF ws = <<>> THEN 0 ELSE Head(ws).x + Head(ws).y + SumWheel(Tail(ws))

\* EventWriter::send, once per event of es.
Send(ev, es) == [ev EXCEPT !.b = ev.b \o es]
\* EventReader::iter: every unread event, older buffer first.
Unread(ev) == ev.a \o ev.b
NoEvents == [a |-> <<>>, b |-> <<>>]
\* Events::update, which add_event schedules first in every frame: the newer
\* buffer becomes the older one, and what was in the older one is dropped.
EventsUpdate(ev) == [a |-> ev.b, b |-> <<>>]

(* --------------------------- FPS controller --------------------------- *)

FpsKeys == <<[key |-> "W", dir |-> V3(0, 0, 1)],
             [key |-> "A", dir |-> V3(1, 0, 0)],
             [key |-> "S", dir |-> V3(0, 0, -1)],
             [key |-> "D", dir |-> V3(-1, 0, 0)],
             [key |-> "LShift", dir |-> V3(0, -1, 0)],
             [key |-> "Space", dir |-> V3(0, 1, 0)]>>
FpsKeyCodes == {FpsKeys[i].key : i \in 1..Len(FpsKeys)}

RECURSIVE FpsKeyEvents(_, _, _)
FpsKeyEvents(c, keys, i) ==
    IF i > Len(FpsKeys) THEN <<>>
    ELSE (IF FpsKeys[i].key \in keys
          THEN <<TranslateEye(Scale3(c.translate_sensitivity, FpsKeys[i].dir))>>
          ELSE <<>>) \o FpsKeyEvents(c, keys, i + 1)

FpsInputEventsRotateIfMoved(c, inp) ==
    (IF SumMotion(inp.motion) = Zero2 THEN <<>>
     ELSE <<Rotate(Mul2(c.mouse_rotate_sensitivity, SumMotion(inp.motion)))>>)
        \o FpsKeyEvents(c, inp.keys, 1)

\* The events one run of the FPS default_input_map sends for controller c.
FpsInputEvents(c, inp) ==
    <<Rotate(Mul2(c.mouse_rotate_sensitivity, SumMotion(inp.motion)))>>
        \o FpsKeyEvents(c, inp.keys, 1)

\* The FPS default_input_map, reading one of `inputs`.
FpsDefaultInputMap(inputs) ==
    /\ kind = "fps"
    /\ stage = Update
    /\ "default_input_map" \notin ran
    /\ ~panicked
    /\ ran' = ran \cup {"default_input_map"}
    /\ \E i \in inputs :
          /\ input' = Some(i)
          /\ IF ActiveCamera = None
             THEN /\ emitted' = <<>>
                  /\ events' = events
             ELSE LET es == FpsInputEvents(controllers[Unwrap(ActiveCamera)], i)
                  IN  /\ emitted' = es
                      /\ events' = Send(events, es)
    /\ UNCHANGED <<kind, controllers, transforms, stage, outcome, frame, panicked>>

FpsApplyEventUnclamped(st, e, q) ==
    IF e.type = "Rotate"
    THEN [st EXCEPT !.angles = [yaw |-> st.angles.yaw - e.d[1],
                                pitch |-> st.angles.pitch - e.d[2]]]
    ELSE [st EXCEPT !.eye = Add3(st.eye,
              Add3(Scale3(e.d[1], YawRotX(q)),
                   Add3(Scale3(e.d[2], YawRotY(q)), Scale3(e.d[3], YawRotZ(q)))))]

FpsApplyEventCurrentYaw(st, e, q) ==
    IF e.type = "Rotate"
    THEN [st EXCEPT !.angles = add_pitch(add_yaw(st.angles, -e.d[1]), -e.d[2])]
    ELSE [st EXCEPT !.eye = Add3(st.eye,
              Add3(Scale3(e.d[1], YawRotX(st.angles.yaw)),
                   Add3(Scale3(e.d[2], YawRotY(st.angles.yaw)),
                        Scale3(e.d[3], YawRotZ(st.angles.yaw)))))]

\* One event of the FPS control_system's loop; st = [angles, eye], q the yaw
\* the frame began with.
FpsApplyEvent(st, e, q) ==
    IF e.type = "Rotate"
    THEN [st EXCEPT !.angles = add_pitch(add_yaw(st.angles, -e.d[1]), -e.d[2])]
    ELSE [st EXCEPT !.eye = Add3(st.eye,
              Add3(Scale3(e.d[1], YawRotX(q)),
                   Add3(Scale3(e.d[2], YawRotY(q)), Scale3(e.d[3], YawRotZ(q)))))]

RECURSIVE FpsApplyEvents(_, _, _)
FpsApplyEvents(st, es, q) ==
    IF es = <<>> THEN st
    ELSE FpsApplyEvents(FpsApplyEvent(st, Head(es), q), Tail(es), q)

\* transform.target = transform.eye + transform.radius() * unit_vector: the
\* radius is read after the events have moved eye, target still being the old one.
Retarget(eye, target, angles) ==
    [eye |-> eye,
     target |-> Add3(eye, Scale3(radius([eye |-> eye, target |-> target]),
                                 unit_vector(angles)))]

FpsControlSystem ==
    /\ kind = "fps"
    /\ stage = Update
    /\ "control_system" \notin ran
    /\ ~panicked
    /\ ran' = ran \cup {"control_system"}
    /\ IF ActiveCamera = None
       THEN /\ outcome' = "no_camera"
            /\ UNCHANGED <<transforms, events, panicked>>
       ELSE LET t == transforms[Unwrap(ActiveCamera)]
                direction == look_direction(t)
            IN  IF direction = None
                THEN \* look_direction().unwrap()
                     /\ outcome' = "panicked"
                     /\ panicked' = TRUE
                     /\ UNCHANGED <<transforms, events>>
                ELSE LET look_vector == Unwrap(direction)
                         look_angles == from_vector(look_vector)
                         st == FpsApplyEvents([angles |-> look_angles, eye |-> t.eye],
                                              Unread(events), look_angles.yaw)
                     IN  /\ events' = NoEvents
                         /\ IF assert_not_looking_up(st.angles)
                            THEN /\ outcome' = "applied"
                                 /\ transforms' = [transforms EXCEPT ![Unwrap(ActiveCamera)] =
                                        Retarget(st.eye, t.target, st.angles)]
                                 /\ UNCHANGED panicked
                            ELSE \* the assertion fails
                                 /\ outcome' = "looking_up"
                                 /\ panicked' = TRUE
                                 /\ UNCHANGED transforms
    /\ UNCHANGED <<kind, controllers, stage, input, emitted, frame>>

(* -------------------------- Unreal controller ------------------------- *)

\* keyboard_mvmt_sensitivity.max(0.01), in length units of 0.01.
KbdFloor == 1

UnrealKeyCodes == {"W", "A", "S", "D", "Q", "E"}
Held(keys, k) == IF k \in keys THEN 1 ELSE 0

KbdSensFloorDropped(sens) == sens
\* controller.keyboard_mvmt_sensitivity = keyboard_mvmt_sensitivity.max(0.01)
KbdSensFloor(sens) == Max(sens, KbdFloor)

WheelLocomotesAlways(any_pressed, wheel_delta) == wheel_delta # 0
\* else if wheel_delta != 0.0: the wheel moves the camera only with no button held.
WheelLocomotes(any_pressed, wheel_delta) == ~any_pressed /\ wheel_delta # 0

AdaptedSensNoWheel(any_pressed, kms, step) == kms
AdaptedSensWithoutButton(any_pressed, kms, step) == KbdSensFloor(kms + step)
\* keyboard_mvmt_sensitivity after the mapper: adapted by the wheel inside the
\* any-button branch only.
AdaptedSens(any_pressed, kms, step) ==
    IF any_pressed THEN KbdSensFloor(kms + step) ELSE kms

LeftOnlyLocomotionReplaces(c, cursor_delta, locomotion) ==
    V2(c.rotate_sensitivity[1] * cursor_delta[1],
       -c.mouse_translate_sensitivity[2] * cursor_delta[2])
\* Left button only: locomotion.x = rotate_sensitivity.x * cursor_delta.x;
\* locomotion.y -= mouse_translate_sensitivity.y * cursor_delta.y.
LeftOnlyLocomotion(c, cursor_delta, locomotion) ==
    V2(c.rotate_sensitivity[1] * cursor_delta[1],
       locomotion[2] - c.mouse_translate_sensitivity[2] * cursor_delta[2])

UnrealSendPerAxis(rotate_only, rotation, panning, locomotion) ==
    (IF rotate_only THEN <<Rotate(rotation)>> ELSE <<>>)
    \o (IF panning[1] # 0 THEN <<TranslateEye(V2(panning[1], 0))>> ELSE <<>>)
    \o (IF panning[2] # 0 THEN <<TranslateEye(V2(0, panning[2]))>> ELSE <<>>)
    \o (IF LengthSquared2(locomotion) > 0 THEN <<Locomotion(locomotion)>> ELSE <<>>)
UnrealSendAlways(rotate_only, rotation, panning, locomotion) ==
    (IF rotate_only THEN <<Rotate(rotation)>> ELSE <<>>)
    \o <<TranslateEye(panning), Locomotion(locomotion)>>
\* The three events.send of the mapper, in order.
UnrealSend(rotate_only, rotation, panning, locomotion) ==
    (IF rotate_only THEN <<Rotate(rotation)>> ELSE <<>>)
    \o (IF LengthSquared2(panning) > 0 THEN <<TranslateEye(panning)>> ELSE <<>>)
    \o (IF LengthSquared2(locomotion) > 0 THEN <<Locomotion(locomotion)>> ELSE <<>>)

\* One run of the Unreal default_input_map for controller c:
\* [events: what it sends, in order; sens: the keyboard_mvmt_sensitivity it
\* leaves in the controller; panning, locomotion: its two accumulators].
UnrealInputResult(c, inp) ==
    LET left_pressed == "Left" \in inp.buttons
        right_pressed == "Right" \in inp.buttons
        middle_pressed == "Middle" \in inp.buttons
        any_pressed == left_pressed \/ middle_pressed \/ right_pressed
        cursor_delta == SumMotion(inp.motion)
        wheel_delta == SumWheel(inp.wheel)
        panning_dir == V2(Held(inp.keys, "D") - Held(inp.keys, "A"),
                          Held(inp.keys, "E") - Held(inp.keys, "Q"))
        translation_dir == V2(0, Held(inp.keys, "W") - Held(inp.keys, "S"))
        kms == c.keyboard_mvmt_sensitivity
        panning1 == IF any_pressed THEN Scale2(kms, panning_dir) ELSE Zero2
        locomotion1 ==
            Add2(IF any_pressed /\ translation_dir[2] # 0
                 THEN V2(0, kms * translation_dir[2]) ELSE Zero2,
                 IF WheelLocomotes(any_pressed, wheel_delta)
                 THEN V2(0, c.wheel_translate_sensitivity * wheel_delta)
                 ELSE Zero2)
        sens == AdaptedSens(any_pressed, kms,
                            c.keyboard_mvmt_wheel_sensitivity * wheel_delta)
        panning == IF middle_pressed \/ (left_pressed /\ right_pressed)
                   THEN Add2(panning1, Mul2(c.mouse_translate_sensitivity, cursor_delta))
                   ELSE panning1
        locomotion ==
            IF left_pressed /\ ~middle_pressed /\ ~right_pressed
            THEN LeftOnlyLocomotion(c, cursor_delta, locomotion1)
            ELSE locomotion1
    IN  [events |->
            UnrealSend(~left_pressed /\ ~middle_pressed /\ right_pressed,
                       Mul2(c.rotate_sensitivity, cursor_delta), panning, locomotion),
         sens |-> sens,
         panning |-> panning,
         locomotion |-> locomotion]

\* The Unreal default_input_map, reading one of `inputs`.
UnrealDefaultInputMap(inputs) ==
    /\ kind = "unreal"
    /\ stage = Update
    /\ "default_input_map" \notin ran
    /\ ~panicked
    /\ ran' = ran \cup {"default_input_map"}
    /\ \E i \in inputs :
          /\ input' = Some(i)
          /\ IF ActiveCamera = None
             THEN /\ emitted' = <<>>
                  /\ UNCHANGED <<events, controllers>>
             ELSE LET r == UnrealInputResult(controllers[Unwrap(ActiveCamera)], i)
                  IN  /\ emitted' = r.events
                      /\ events' = Send(events, r.events)
                      /\ controllers' = [controllers EXCEPT
                             ![Unwrap(ActiveCamera)].keyboard_mvmt_sensitivity = r.sens]
    /\ UNCHANGED <<kind, transforms, stage, outcome, frame, panicked>>

UnrealApplyEventCurrentDirection(st, e, look_vector) ==
    CASE e.type = "Locomotion" ->
            [angles |-> add_yaw(st.angles, -e.d[1]),
             eye |-> Add3(st.eye, Scale3(e.d[2], unit_vector(st.angles)))]
      [] e.type = "Rotate" ->
            [st EXCEPT !.angles = add_pitch(add_yaw(st.angles, -e.d[1]), -e.d[2])]
      [] e.type = "TranslateEye" ->
            [st EXCEPT !.eye = Sub3(st.eye,
                Sub3(Scale3(e.d[1], YawRotX(st.angles.yaw)), V3(0, e.d[2] * Den, 0)))]

\* One event of the Unreal control_system's loop; st = [angles, eye],
\* look_vector the look direction the frame began with.
UnrealApplyEvent(st, e, look_vector) ==
    CASE e.type = "Locomotion" ->
            [angles |-> add_yaw(st.angles, -e.d[1]),
             eye |-> Add3(st.eye, Scale3(e.d[2], look_vector))]
      [] e.type = "Rotate" ->
            [st EXCEPT !.angles = add_pitch(add_yaw(st.angles, -e.d[1]), -e.d[2])]
      [] e.type = "TranslateEye" ->
            [st EXCEPT !.eye = Sub3(st.eye,
                Sub3(Scale3(e.d[1], YawRotX(st.angles.yaw)), V3(0, e.d[2] * Den, 0)))]

RECURSIVE UnrealApplyEvents(_, _, _)
UnrealApplyEvents(st, es, look_vector) ==
    IF es = <<>> THEN st
    ELSE UnrealApplyEvents(UnrealApplyEvent(st, Head(es), look_vector), Tail(es),
                           look_vector)

UnrealNoDirectionUnwrap ==
    /\ outcome' = "panicked"
    /\ panicked' = TRUE
    /\ UNCHANGED <<transforms, events>>
\* match transform.look_direction() { ..., None => return }
UnrealNoDirection ==
    /\ outcome' = "no_direction"
    /\ UNCHANGED <<transforms, events, panicked>>

UnrealControlSystem ==
    /\ kind = "unreal"
    /\ stage = Update
    /\ "control_system" \notin ran
    /\ ~panicked
    /\ ran' = ran \cup {"control_system"}
    /\ IF ActiveCamera = None
       THEN /\ outcome' = "no_camera"
            /\ UNCHANGED <<transforms, events, panicked>>
       ELSE LET t == transforms[Unwrap(ActiveCamera)]
                direction == look_direction(t)
            IN  IF direction = None
                THEN UnrealNoDirection
                ELSE LET look_vector == Unwrap(direction)
                         look_angles == from_vector(look_vector)
                         st == UnrealApplyEvents(
                                   [angles |-> look_angles, eye |-> t.eye],
                                   Unread(events), look_vector)
                     IN  /\ events' = NoEvents
                         /\ IF assert_not_looking_up(st.angles)
                            THEN /\ outcome' = "applied"
                                 /\ transforms' = [transforms EXCEPT ![Unwrap(ActiveCamera)] =
                                        Retarget(st.eye, t.target, st.angles)]
                                 /\ UNCHANGED panicked
                            ELSE \* the assertion fails
                                 /\ outcome' = "looking_up"
                                 /\ panicked' = TRUE
                                 /\ UNCHANGED transforms
    /\ UNCHANGED <<kind, controllers, stage, input, emitted, frame>>

(* ------------------------------- frames ------------------------------- *)

Deltas == (-MaxDelta)..MaxDelta
\* The MouseMotion events of a frame: none or one.
Motions == {<<>>} \cup {<<d>> : d \in (Deltas \X Deltas) \ {Zero2}}
\* The MouseWheel events of a frame: none or one vertical notch.
Wheels == {<<>>} \cup {<<[x |-> 0, y |-> w]>> : w \in ((-MaxWheel)..MaxWheel) \ {0}}
Buttons == {"Left", "Right", "Middle"}

RawInput(motion, wheel, keys, buttons) ==
    [motion |-> motion, wheel |-> wheel, keys |-> keys, buttons |-> buttons]

\* Every input a mapper can see, within the bounds. The FPS mapper reads
\* neither the wheel nor the mouse buttons.
FpsAllInputs ==
    {RawInput(m, <<>>, k, {}) : m \in Motions, k \in SUBSET FpsKeyCodes}
UnrealAllInputs ==
    {RawInput(m, w, k, b) : m \in Motions, w \in Wheels,
                            k \in SUBSET UnrealKeyCodes, b \in SUBSET Buttons}

\* The inputs of the frames of Spec: few signals at a time.
FewSignals(i) == Cardinality(i.keys) + Len(i.motion) + Len(i.wheel) <= MaxSignals
FpsFrameInputs == {i \in FpsAllInputs : FewSignals(i)}
UnrealFrameInputs == {i \in UnrealAllInputs : FewSignals(i)}

Systems == {"default_input_map", "control_system"}

\* A frame begins (at most `limit` of them): Events::update runs in
\* CoreStage::First, then the Update stage starts.
BeginFrame(limit) ==
    /\ stage = Idle
    /\ ~panicked
    /\ frame < limit
    /\ stage' = Update
    /\ events' = EventsUpdate(events)
    /\ frame' = frame + 1
    /\ UNCHANGED <<kind, controllers, transforms, input, ran, emitted, outcome,
                   panicked>>

\* The frame ends once the systems of the Update stage have run.
EndFrame(systems) ==
    /\ stage = Update
    /\ ~panicked
    /\ ran = systems
    /\ stage' = Idle
    /\ input' = NoInput
    /\ ran' = {}
    /\ emitted' = <<>>
    /\ outcome' = Idle
    /\ UNCHANGED <<kind, controllers, transforms, events, frame, panicked>>

\* The host sets a controller's enabled flag, between frames.
SetEnabled(limit) ==
    /\ stage = Idle
    /\ ~panicked
    /\ frame < limit
    /\ \E c \in Cams, b \in BOOLEAN :
          /\ controllers[c].enabled # b
          /\ controllers' = [controllers EXCEPT ![c].enabled = b]
    /\ UNCHANGED <<kind, transforms, events, stage, input, ran, emitted, outcome,
                   frame, panicked>>

\* A smoothing weight is a number of tenths; the default is 0.9.
WeightDen == 10
DefaultSmoothingWeight == 9

\* FpsCameraController of camera c; sensitivities differ between cameras.
FpsController(c) ==
    [enabled |-> TRUE,
     mouse_rotate_sensitivity |-> V2(c, 1),
     translate_sensitivity |-> c,
     smoothing_weight |-> DefaultSmoothingWeight]

\* UnrealCameraController of camera c.
UnrealController(c) ==
    [enabled |-> TRUE,
     rotate_sensitivity |-> V2(c, 1),
     mouse_translate_sensitivity |-> V2(c, c),
     wheel_translate_sensitivity |-> c,
     keyboard_mvmt_sensitivity |-> c,
     keyboard_mvmt_wheel_sensitivity |-> c,
     smoothing_weight |-> DefaultSmoothingWeight]

\* LookTransform::new(eye, target) of a camera at the origin looking down -Z.
NewTransform(r) ==
    [eye |-> Zero3,
     target |-> Scale3(r, unit_vector([yaw |-> 2, pitch |-> 0]))]

Init ==
    /\ kind \in {"fps", "unreal"}
    /\ controllers = [c \in Cams |->
           IF kind = "fps" THEN FpsController(c) ELSE UnrealController(c)]
    /\ \E r \in 1..MaxRadius : transforms = [c \in Cams |-> NewTransform(r)]
    /\ stage = Idle
    /\ events = NoEvents
    /\ input = NoInput
    /\ ran = {}
    /\ emitted = <<>>
    /\ outcome = Idle
    /\ frame = 0
    /\ panicked = FALSE

\* The Update stage holds both systems, in no stated order.
Next ==
    \/ BeginFrame(MaxFrames)
    \/ FpsDefaultInputMap(FpsFrameInputs)
    \/ FpsControlSystem
    \/ UnrealDefaultInputMap(UnrealFrameInputs)
    \/ UnrealControlSystem
    \/ EndFrame(Systems)
    \/ SetEnabled(MaxFrames)

Spec == Init /\ [][Next]_vars

\* The input mappers alone, over every input of one frame: the app runs
\* default_input_map and no control_system.
MapInit == Init /\ transforms = [c \in Cams |-> NewTransform(MaxRadius)]

MapNext ==
    \/ BeginFrame(1)
    \/ FpsDefaultInputMap(FpsAllInputs)
    \/ UnrealDefaultInputMap(UnrealAllInputs)
    \/ EndFrame({"default_input_map"})
    \/ SetEnabled(1)

MapSpec == MapInit /\ [][MapNext]_vars

(* ------------------------ a host's input system ----------------------- *)

\* Largest number of events a host input system sends in a frame.
MaxEvents == 3
\* Largest pitch component of a Rotate a host input system sends: more than
\* the whole pitch range.
MaxTurn == 7

\* A LookTransform that earlier frames can have left: any yaw, any pitch the
\* singularity guard allows.
AlignedTransforms ==
    {[eye |-> Zero3, target |-> Scale3(MaxRadius, unit_vector([yaw |-> q, pitch |-> p]))] :
        q \in 0..3, p \in (-MaxPitch)..MaxPitch}

RotateDeltas == {V2(x, y) : x \in 0..1, y \in {-MaxTurn, -1, 0, 1, MaxTurn}} \ {Zero2}
FpsHostEvents ==
    {Rotate(d) : d \in RotateDeltas}
    \cup {TranslateEye(Scale3(k, FpsKeys[n].dir)) : k \in {1}, n \in 1..Len(FpsKeys)}
UnrealHostEvents ==
    {Rotate(d) : d \in RotateDeltas}
    \cup {TranslateEye(d) : d \in {V2(1, 0), V2(-1, 0), V2(0, 1), V2(0, -1)}}
    \cup ({Locomotion(V2(x, y)) : x \in 0..1, y \in (-1)..1} \ {Locomotion(Zero2)})

SeqsUpTo(S, n) == UNION {[1..m -> S] : m \in 0..n}
FpsHostFrames == SeqsUpTo(FpsHostEvents, MaxEvents)
UnrealHostFrames == SeqsUpTo(UnrealHostEvents, MaxEvents)

\* override_input_system: default_input_map is not added, a system of the host
\* sends the frame's ControlEvents.
HostInputMap ==
    /\ stage = Update
    /\ "default_input_map" \notin ran
    /\ ~panicked
    /\ ran' = ran \cup {"default_input_map"}
    /\ \E es \in (IF kind = "fps" THEN FpsHostFrames ELSE UnrealHostFrames) :
          /\ emitted' = es
          /\ events' = Send(events, es)
    /\ UNCHANGED <<kind, controllers, transforms, stage, input, outcome, frame, panicked>>

ResolveInit ==
    /\ kind \in {"fps", "unreal"}
    /\ controllers = [c \in Cams |->
           IF kind = "fps" THEN FpsController(c) ELSE UnrealController(c)]
    /\ \E t \in AlignedTransforms : transforms = [c \in Cams |-> t]
    /\ stage = Idle
    /\ events = NoEvents
    /\ input = NoInput
    /\ ran = {}
    /\ emitted = <<>>
    /\ outcome = Idle
    /\ frame = 0
    /\ panicked = FALSE

ResolveNext ==
    \/ BeginFrame(1)
    \/ HostInputMap
    \/ FpsControlSystem
    \/ UnrealControlSystem
    \/ EndFrame(Systems)

ResolveSpec == ResolveInit /\ [][ResolveNext]_vars

(* ------------------------- frames without end ------------------------ *)

\* The camera stays within MaxCoord length units of the origin on every axis.
MaxCoord == 2

InBox(t) == \A n \in 1..3 : Abs(t.eye[n]) <= MaxCoord * Den

\* Frames in which the user keeps giving translation input: a wheel notch with
\* no button held, or the right button with W, with D or with E.
UnrealLiveInputs ==
    {RawInput(<<>>, <<[x |-> 0, y |-> w]>>, {}, {}) : w \in {-1, 1}}
    \cup {RawInput(<<>>, <<>>, {k}, {"Right"}) : k \in {"W", "D", "E"}}

\* A frame begins; frames are not counted.
LiveBeginFrame ==
    /\ stage = Idle
    /\ ~panicked
    /\ stage' = Update
    /\ events' = EventsUpdate(events)
    /\ UNCHANGED <<kind, controllers, transforms, input, ran, emitted, outcome,
                   frame, panicked>>

\* The Unreal control_system, for as long as the camera stays in the box.
LiveControlSystem == UnrealControlSystem /\ \A c \in Cams : InBox(transforms'[c])

LiveInit == Init /\ kind = "unreal" /\ transforms = [c \in Cams |-> NewTransform(1)]

LiveNext ==
    \/ LiveBeginFrame
    \/ UnrealDefaultInputMap(UnrealLiveInputs)
    \/ LiveControlSystem
    \/ EndFrame(Systems)

\* A step in which control_system runs.
ControlSystemRuns ==
    /\ stage = Update
    /\ "control_system" \notin ran
    /\ ~panicked
    /\ ran' = ran \cup {"control_system"}

\* The app runs frame after frame, and each system of a frame runs.
LiveSpec ==
    /\ LiveInit
    /\ [][LiveNext]_vars
    /\ WF_vars(LiveBeginFrame)
    /\ WF_vars(UnrealDefaultInputMap(UnrealLiveInputs))
    /\ WF_ran(ControlSystemRuns)
    /\ WF_vars(EndFrame(Systems))

(* ---------------------------- construction ---------------------------- *)

\* Smoother::new(weight): rejects a weight outside [0, 1).
Smoother_new(weight) ==
    IF 0 <= weight /\ weight < WeightDen
    THEN Some([lag_weight |-> weight, lerp_tfm |-> None])
    ELSE None

\* FpsCameraBundle::new and UnrealCameraBundle::new: the controller is stored as
\* given, the only call that can fail is Smoother::new.
CameraBundle_new(controller, eye, target) ==
    LET smoother == Smoother_new(controller.smoothing_weight)
    IN  IF smoother = None THEN None
        ELSE Some([controller |-> controller,
                   look_transform |-> [eye |-> eye, target |-> target],
                   smoother |-> Unwrap(smoother)])

\* The configurations a host may hand to the constructors.
Sensitivities == (-1)..1
Weights == {-1, 0, DefaultSmoothingWeight, WeightDen}
FpsConfigs ==
    [enabled : {TRUE},
     mouse_rotate_sensitivity : {V2(x, x) : x \in Sensitivities},
     translate_sensitivity : Sensitivities,
     smoothing_weight : Weights]
UnrealConfigs ==
    [enabled : {TRUE},
     rotate_sensitivity : {V2(x, x) : x \in Sensitivities},
     mouse_translate_sensitivity : {V2(1, 1)},
     wheel_translate_sensitivity : Sensitivities,
     keyboard_mvmt_sensitivity : {1},
     keyboard_mvmt_wheel_sensitivity : {1},
     smoothing_weight : Weights]

\* The setup code spawns camera c from one of the configurations; a failed
\* constructor call is fatal.
Spawn ==
    /\ ~panicked
    /\ \E c \in Cams, r \in 1..MaxRadius,
          cfg \in (IF kind = "fps" THEN FpsConfigs ELSE UnrealConfigs) :
          /\ controllers[c] = None
          /\ input' = Some(cfg)
          /\ LET t == NewTransform(r)
                 bundle == CameraBundle_new(cfg, t.eye, t.target)
             IN  IF bundle = None
                 THEN /\ outcome' = "panicked"
                      /\ panicked' = TRUE
                      /\ UNCHANGED <<controllers, transforms>>
                 ELSE /\ outcome' = "spawned"
                      /\ controllers' = [controllers EXCEPT
                             ![c] = Some(Unwrap(bundle).controller)]
                      /\ transforms' = [transforms EXCEPT
                             ![c] = Some(Unwrap(bundle).look_transform)]
                      /\ UNCHANGED panicked
    /\ UNCHANGED <<kind, events, stage, ran, emitted, frame>>

\* The world before any camera is spawned.
NewInit ==
    /\ kind \in {"fps", "unreal"}
    /\ controllers = [c \in Cams |-> None]
    /\ transforms = [c \in Cams |-> None]
    /\ stage = Idle
    /\ events = NoEvents
    /\ input = NoInput
    /\ ran = {}
    /\ emitted = <<>>
    /\ outcome = Idle
    /\ frame = 0
    /\ panicked = FALSE

NewNext == Spawn

NewSpec == NewInit /\ [][NewNext]_vars

(* ------------------------------- claims ------------------------------- *)

\* The step is a run of default_input_map / of control_system.
MapperStep == "default_input_map" \in ran' /\ "default_input_map" \notin ran
ControlStep == "control_system" \in ran' /\ "control_system" \notin ran

\* Camera c is the first in iteration order whose controller is enabled.
IsFirstEnabled(c) ==
    controllers[c].enabled /\ \A d \in 1..(c - 1) : ~controllers[d].enabled
NoneEnabled == \A c \in Cams : ~controllers[c].enabled
Degenerate(c) == transforms[c].eye = transforms[c].target
DistSq(t) == LengthSquared3(Sub3(t.target, t.eye))

\* Every reachable LookTransform is eye + radius * unit vector of its angles, so
\* that look_direction and from_vector are exact on it.
Aligned ==
    \A c \in Cams :
        ~Degenerate(c) =>
            LET t == transforms[c]
                d == Unwrap(look_direction(t))
            IN  /\ unit_vector(from_vector(d)) = d
                /\ t.target = Add3(t.eye, Scale3(radius(t), d))

\* C1: a frame of control_system with a defined look direction leaves
\* distance(eye, target) as it was.
C1_RadiusPreserved ==
    [][\A c \in Cams :
          (ControlStep /\ ~Degenerate(c)) =>
              DistSq(transforms'[c]) = DistSq(transforms[c])]_vars

\* C2: the FPS control_system, run on an active camera whose eye equals its
\* target, does not panic and leaves every eye and target unchanged.
C2_FpsSkipsDegenerateFrame ==
    [][(kind = "fps" /\ ControlStep
            /\ \E c \in Cams : IsFirstEnabled(c) /\ Degenerate(c))
          => (~panicked' /\ transforms' = transforms)]_vars

\* C3: the Unreal control_system, run on an active camera whose eye equals its
\* target, returns without a panic and leaves every eye and target unchanged,
\* whatever events are unread.
C3_UnrealSkipsDegenerateFrame ==
    [][(kind = "unreal" /\ ControlStep
            /\ \E c \in Cams : IsFirstEnabled(c) /\ Degenerate(c))
          => (~panicked' /\ transforms' = transforms)]_vars

\* An Unreal frame whose control_system returned at the None branch with events
\* unread.
C3_Witness ==
    /\ kind = "unreal"
    /\ outcome = "no_direction"
    /\ \E c \in Cams : IsFirstEnabled(c) /\ Degenerate(c)
    /\ Unread(events) # <<>>

\* C4: eye # target holds of every camera in every reachable state.
C4_EyeNeverEqualsTarget == \A c \in Cams : ~Degenerate(c)

\* C5: while no controller is enabled, a run of default_input_map sends no
\* event, and no step changes any eye or target.
C5_DisabledControllerIsInert ==
    [][NoneEnabled =>
          /\ transforms' = transforms
          /\ MapperStep => (emitted' = <<>> /\ events' = events)]_vars

\* A frame with no controller enabled in which both systems ran, the mapper on
\* an input with a key held or the pointer moved.
C5_Witness ==
    /\ NoneEnabled
    /\ ran = Systems
    /\ input # NoInput
    /\ Unwrap(input).keys # {} \/ Unwrap(input).motion # <<>>
    /\ emitted = <<>>

\* The events default_input_map sends for controller c on input i.
MapperEvents(c, i) ==
    IF kind = "fps" THEN FpsInputEvents(c, i) ELSE UnrealInputResult(c, i).events

\* C6: in every step only the first enabled camera's eye and target may change,
\* and a run of default_input_map sends the events computed from the first
\* enabled controller's sensitivities.
C6_SingleActiveController ==
    [][\A c \in Cams :
          /\ ~IsFirstEnabled(c) => transforms'[c] = transforms[c]
          /\ (MapperStep /\ IsFirstEnabled(c)) =>
                emitted' = MapperEvents(controllers[c], Unwrap(input'))]_vars

\* Two enabled cameras, after a frame in which the mapper sent events and
\* control_system moved the first camera only.
C6_Witness ==
    /\ \A c \in Cams : controllers[c].enabled
    /\ outcome = "applied"
    /\ Len(emitted) > 1
    /\ transforms[1] # transforms[2]
    /\ \A c \in Cams \ {1} : transforms[c] = NewTransform(radius(transforms[c]))

\* The Unreal mapper has run this frame, for the active controller c.
UnrealMapped(c) ==
    /\ kind = "unreal"
    /\ "default_input_map" \in ran
    /\ input # NoInput
    /\ IsFirstEnabled(c)

\* C7: with only the right button held and none of W/S/A/D/Q/E, the Unreal
\* mapper run for an active controller sends exactly one event,
\* Rotate(rotate_sensitivity * pointer delta), whatever the wheel did.
C7_RightButtonRotatesOnly ==
    \A c \in Cams :
        (/\ UnrealMapped(c)
         /\ Unwrap(input).buttons = {"Right"}
         /\ Unwrap(input).keys = {}) =>
            emitted = <<Rotate(Mul2(controllers[c].rotate_sensitivity,
                                    SumMotion(Unwrap(input).motion)))>>

\* Right button only, the pointer and the wheel both moved.
C7_Witness ==
    \E c \in Cams :
        /\ UnrealMapped(c)
        /\ Unwrap(input).buttons = {"Right"}
        /\ Unwrap(input).keys = {}
        /\ Unwrap(input).motion # <<>>
        /\ Unwrap(input).wheel # <<>>
        /\ Len(emitted) = 1

EventsOfType(es, type) == {n \in 1..Len(es) : es[n].type = type}

\* C8: one run of the Unreal mapper sends at most three events, at most one of
\* each variant.
C8_AtMostThreeEvents ==
    kind = "unreal" =>
        /\ Len(emitted) <= 3
        /\ \A type \in {"Rotate", "TranslateEye", "Locomotion"} :
              Cardinality(EventsOfType(emitted, type)) <= 1

\* A run that sends all three events.
C8_Witness ==
    /\ kind = "unreal"
    /\ Len(emitted) = 3
    /\ Unwrap(input).motion # <<>>

\* C9: keyboard_mvmt_sensitivity of every Unreal controller is at least the
\* floor 0.01 in every reachable state.
C9_SensitivityFloor ==
    kind = "unreal" =>
        \A c \in Cams : controllers[c].keyboard_mvmt_sensitivity >= KbdFloor

\* A button held and the wheel turned back so far that the sum is below the
\* floor: the sensitivity is the floor.
C9_Witness ==
    /\ kind = "unreal"
    /\ "default_input_map" \in ran
    /\ Unwrap(input).buttons # {}
    /\ SumWheel(Unwrap(input).wheel) < 0
    /\ \E c \in Cams :
          /\ IsFirstEnabled(c)
          /\ controllers[c].keyboard_mvmt_sensitivity = KbdFloor

\* C10: control_system applies no event of an earlier frame: when it applies
\* events, the older buffer of Events<ControlEvent> holds none unread.
C10_EventsAppliedInTheirFrame ==
    [][(ControlStep /\ outcome' = "applied") => events.a = <<>>]_vars

\* A controller configuration the constructors must accept: smoothing weight in
\* [0, 1) and no negative sensitivity.
ValidConfig(cfg) ==
    /\ 0 <= cfg.smoothing_weight /\ cfg.smoothing_weight < WeightDen
    /\ IF kind = "fps"
       THEN /\ cfg.translate_sensitivity >= 0
            /\ \A n \in 1..2 : cfg.mouse_rotate_sensitivity[n] >= 0
       ELSE /\ cfg.wheel_translate_sensitivity >= 0
            /\ \A n \in 1..2 : cfg.rotate_sensitivity[n] >= 0

\* C11: a constructor call on a controller whose smoothing weight is outside
\* [0, 1) or that has a negative sensitivity fails: no spawned camera carries
\* such a controller.
C11_InvalidConfigRejected ==
    \A c \in Cams : controllers[c] # None => ValidConfig(Unwrap(controllers[c]))

IsRotate(e) == e.type = "Rotate"
IsTranslateEye(e) == e.type = "TranslateEye"

\* The sum of the TranslateEye deltas of es, each expressed in the basis of yaw q.
RECURSIVE SumTranslateEye(_, _)
SumTranslateEye(es, q) ==
    IF es = <<>> THEN Zero3
    ELSE Add3(IF IsTranslateEye(Head(es))
              THEN Add3(Scale3(Head(es).d[1], YawRotX(q)),
                        Add3(Scale3(Head(es).d[2], YawRotY(q)),
                             Scale3(Head(es).d[3], YawRotZ(q))))
              ELSE Zero3,
              SumTranslateEye(Tail(es), q))

\* The LookTransform the FPS control_system leaves when it applies es to t.
FpsResolved(t, es) ==
    LET look_angles == from_vector(Unwrap(look_direction(t)))
        st == FpsApplyEvents([angles |-> look_angles, eye |-> t.eye], es,
                             look_angles.yaw)
    IN  Retarget(st.eye, t.target, st.angles)

\* C12: a frame of the FPS control_system moves eye by the sum of the frame's
\* TranslateEye deltas in the yaw basis of the look direction the frame began
\* with, whatever Rotate events the frame has, and eye and target are the same
\* with the Rotate events moved before or after the TranslateEye events.
C12_FpsBasisDecoupled ==
    [][\A c \in Cams :
          (kind = "fps" /\ ControlStep /\ outcome' = "applied" /\ IsFirstEnabled(c)) =>
              LET t == transforms[c]
                  es == Unread(events)
                  q == from_vector(Unwrap(look_direction(t))).yaw
                  rs == SelectSeq(es, IsRotate)
                  ts == SelectSeq(es, IsTranslateEye)
              IN  /\ transforms'[c].eye = Add3(t.eye, SumTranslateEye(es, q))
                  /\ transforms'[c] = FpsResolved(t, rs \o ts)
                  /\ transforms'[c] = FpsResolved(t, ts \o rs)]_vars

\* An FPS frame applied whose events had a Rotate that turns the yaw by a
\* quarter turn before a TranslateEye along the view axis or sideways.
C12_Witness ==
    /\ kind = "fps"
    /\ outcome = "applied"
    /\ events = NoEvents
    /\ \E i, j \in 1..Len(emitted) :
          /\ i < j
          /\ IsRotate(emitted[i]) /\ emitted[i].d[1] # 0
          /\ IsTranslateEye(emitted[j]) /\ emitted[j].d[2] = 0

\* The FPS mapper has run this frame, for the active controller c.
FpsMapped(c) ==
    /\ kind = "fps"
    /\ "default_input_map" \in ran
    /\ input # NoInput
    /\ IsFirstEnabled(c)

FpsKeyDir(k) == FpsKeys[CHOOSE n \in 1..Len(FpsKeys) : FpsKeys[n].key = k].dir

\* C13: a run of the FPS mapper for an active controller sends 1 + k events, k
\* the number of held direction keys: first Rotate(sensitivity * pointer delta),
\* also when that delta is zero, then one TranslateEye(translate_sensitivity *
\* axis) per held key; the events of two opposite keys sum to zero in every yaw
\* basis of the resolver.
C13_FpsMapperEventSet ==
    \A c \in Cams :
        FpsMapped(c) =>
            LET keys == Unwrap(input).keys
                ts == controllers[c].translate_sensitivity
            IN  /\ Len(emitted) = 1 + Cardinality(keys)
                /\ emitted[1] = Rotate(Mul2(controllers[c].mouse_rotate_sensitivity,
                                            SumMotion(Unwrap(input).motion)))
                /\ {emitted[n] : n \in 2..Len(emitted)}
                      = {TranslateEye(Scale3(ts, FpsKeyDir(k))) : k \in keys}
                /\ \A pair \in {{"W", "S"}, {"A", "D"}, {"LShift", "Space"}} :
                      pair \subseteq keys =>
                          \A q \in 0..3 :
                              SumTranslateEye(
                                  SelectSeq(emitted, LAMBDA e :
                                      \E k \in pair :
                                          e = TranslateEye(Scale3(ts, FpsKeyDir(k)))),
                                  q) = Zero3

\* W and S held with the pointer still: a zero Rotate and two TranslateEye.
C13_Witness ==
    \E c \in Cams :
        /\ FpsMapped(c)
        /\ Unwrap(input).keys = {"W", "S"}
        /\ Unwrap(input).motion = <<>>
        /\ Len(emitted) = 3
        /\ emitted[1] = Rotate(Zero2)

\* C14: a run of the Unreal mapper sends TranslateEye(panning) exactly when its
\* panning accumulator is non-zero and Locomotion(locomotion) exactly when its
\* locomotion accumulator is non-zero; with no button held and the wheel still
\* it sends nothing, and with A and D held together and no other panning
\* input it sends no TranslateEye.
C14_UnrealZeroEventSuppression ==
    [][\A c \in Cams :
          (kind = "unreal" /\ MapperStep /\ IsFirstEnabled(c)) =>
              LET i == Unwrap(input')
                  r == UnrealInputResult(controllers[c], i)
                  mouse_pan == /\ "Middle" \in i.buttons \/ {"Left", "Right"} \subseteq i.buttons
                               /\ SumMotion(i.motion) # Zero2
              IN  /\ (EventsOfType(emitted', "TranslateEye") # {}) <=> (r.panning # Zero2)
                  /\ (EventsOfType(emitted', "Locomotion") # {}) <=> (r.locomotion # Zero2)
                  /\ \A n \in EventsOfType(emitted', "TranslateEye") :
                        emitted'[n] = TranslateEye(r.panning)
                  /\ \A n \in EventsOfType(emitted', "Locomotion") :
                        emitted'[n] = Locomotion(r.locomotion)
                  /\ (i.buttons = {} /\ SumWheel(i.wheel) = 0) => emitted' = <<>>
                  /\ (/\ i.keys \cap {"A", "D"} \in {{}, {"A", "D"}}
                      /\ i.keys \cap {"Q", "E"} \in {{}, {"Q", "E"}}
                      /\ ~mouse_pan)
                        => EventsOfType(emitted', "TranslateEye") = {}]_vars

\* A button, A and D held together with W: a Locomotion and no TranslateEye.
C14_Witness ==
    \E c \in Cams :
        /\ UnrealMapped(c)
        /\ Unwrap(input).buttons = {"Right"}
        /\ {"A", "D", "W"} \subseteq Unwrap(input).keys
        /\ EventsOfType(emitted, "TranslateEye") = {}
        /\ EventsOfType(emitted, "Locomotion") # {}

\* C15: a run of the Unreal mapper changes no controller field but
\* keyboard_mvmt_sensitivity, and that one only of the active controller and
\* only with a mouse button held; with no button held, wheel motion w sends
\* Locomotion with y = wheel_translate_sensitivity * w and leaves every
\* controller as it was.
C15_SensitivityFrameCondition ==
    [][(kind = "unreal" /\ MapperStep) =>
          \A c \in Cams :
              LET i == Unwrap(input')
                  w == SumWheel(i.wheel)
              IN  /\ controllers'[c] = [controllers[c] EXCEPT !.keyboard_mvmt_sensitivity
                                            = controllers'[c].keyboard_mvmt_sensitivity]
                  /\ controllers'[c] # controllers[c] =>
                        (IsFirstEnabled(c) /\ i.buttons # {})
                  /\ (IsFirstEnabled(c) /\ i.buttons = {} /\ w # 0) =>
                        /\ emitted' = <<Locomotion(
                               V2(0, controllers[c].wheel_translate_sensitivity * w))>>
                        /\ controllers' = controllers]_vars

\* No button held, the wheel turned: one Locomotion, the sensitivity as
\* constructed.
C15_Witness ==
    \E c \in Cams :
        /\ UnrealMapped(c)
        /\ Unwrap(input).buttons = {}
        /\ SumWheel(Unwrap(input).wheel) # 0
        /\ Len(emitted) = 1
        /\ controllers[c] = UnrealController(c)

\* C16: a run of the Unreal mapper with a mouse button held and wheel delta w
\* leaves keyboard_mvmt_sensitivity = max(0.01, old + keyboard_mvmt_wheel_sensitivity
\* * w), strictly more than old when w = +2 and the wheel sensitivity is
\* positive; the keyboard panning and locomotion it sends are scaled by old.
C16_SensitivityAdaptation ==
    [][\A c \in Cams :
          (kind = "unreal" /\ MapperStep /\ IsFirstEnabled(c)
              /\ Unwrap(input').buttons # {}) =>
              LET i == Unwrap(input')
                  w == SumWheel(i.wheel)
                  old == controllers[c].keyboard_mvmt_sensitivity
                  new == controllers'[c].keyboard_mvmt_sensitivity
                  kmws == controllers[c].keyboard_mvmt_wheel_sensitivity
                  pan == V2(old * (Held(i.keys, "D") - Held(i.keys, "A")),
                            old * (Held(i.keys, "E") - Held(i.keys, "Q")))
                  loc == V2(0, old * (Held(i.keys, "W") - Held(i.keys, "S")))
              IN  /\ new = Max(KbdFloor, old + kmws * w)
                  /\ (w = 2 /\ kmws > 0) => new > old
                  /\ i.motion = <<>> =>
                        /\ \A n \in EventsOfType(emitted', "TranslateEye") :
                              emitted'[n] = TranslateEye(pan)
                        /\ \A n \in EventsOfType(emitted', "Locomotion") :
                              emitted'[n] = Locomotion(loc)
                        /\ pan # Zero2 => EventsOfType(emitted', "TranslateEye") # {}
                        /\ loc # Zero2 => EventsOfType(emitted', "Locomotion") # {}]_vars

\* A button, D and W held, the wheel turned by +2: both keyboard events sent,
\* the sensitivity raised.
C16_Witness ==
    \E c \in Cams :
        /\ UnrealMapped(c)
        /\ Unwrap(input).buttons = {"Middle"}
        /\ Unwrap(input).keys = {"D", "W"}
        /\ Unwrap(input).motion = <<>>
        /\ SumWheel(Unwrap(input).wheel) = 2
        /\ Len(emitted) = 2
        /\ controllers[c].keyboard_mvmt_sensitivity
              > UnrealController(c).keyboard_mvmt_sensitivity

IsLocomotion(e) == e.type = "Locomotion"

\* The sum over the Locomotion events of es of delta.y * look_vector.
RECURSIVE LocomotionPart(_, _)
LocomotionPart(es, look_vector) ==
    IF es = <<>> THEN Zero3
    ELSE Add3(IF IsLocomotion(Head(es)) THEN Scale3(Head(es).d[2], look_vector)
              ELSE Zero3,
              LocomotionPart(Tail(es), look_vector))

\* The eye movement of the TranslateEye events of es, q the yaw before es.
RECURSIVE TranslateEyePart(_, _)
TranslateEyePart(es, q) ==
    IF es = <<>> THEN Zero3
    ELSE IF IsTranslateEye(Head(es))
         THEN Add3(V3(-Head(es).d[1] * Den * CosQ(q), Head(es).d[2] * Den,
                      Head(es).d[1] * Den * SinQ(q)),
                   TranslateEyePart(Tail(es), q))
         ELSE TranslateEyePart(Tail(es), q - Head(es).d[1])

\* The yaw turned by the Locomotion and Rotate events of es.
RECURSIVE YawTurned(_)
YawTurned(es) ==
    IF es = <<>> THEN 0
    ELSE (IF IsTranslateEye(Head(es)) THEN 0 ELSE -Head(es).d[1]) + YawTurned(Tail(es))

\* C17: a frame of the Unreal control_system moves eye, for every Locomotion
\* (delta) of the frame, by delta.y along the look direction the frame began
\* with, whatever Rotate or Locomotion events came before it in the frame, and
\* turns the yaw by -delta.x.
C17_LocomotionAlongFrameDirection ==
    [][\A c \in Cams :
          (kind = "unreal" /\ ControlStep /\ outcome' = "applied" /\ IsFirstEnabled(c)) =>
              LET t == transforms[c]
                  es == Unread(events)
                  look_vector == Unwrap(look_direction(t))
                  yaw == from_vector(look_vector).yaw
              IN  /\ transforms'[c].eye =
                        Add3(t.eye, Add3(LocomotionPart(es, look_vector),
                                         TranslateEyePart(es, yaw)))
                  /\ transforms'[c].eye # transforms'[c].target =>
                        from_vector(Unwrap(look_direction(transforms'[c]))).yaw
                            = (yaw + YawTurned(es)) % 4]_vars

\* An Unreal frame applied whose events had a Rotate or a Locomotion that turns
\* the yaw before a Locomotion that moves the eye.
C17_Witness ==
    /\ kind = "unreal"
    /\ outcome = "applied"
    /\ events = NoEvents
    /\ \E i, j \in 1..Len(emitted) :
          /\ i < j
          /\ ~IsTranslateEye(emitted[i]) /\ emitted[i].d[1] # 0
          /\ IsLocomotion(emitted[j]) /\ emitted[j].d[2] # 0
    /\ \E c \in Cams : IsFirstEnabled(c) /\ ~Degenerate(c)

\* C18: a run of the Unreal mapper with only the left button held sends no
\* Rotate; its Locomotion has x = rotate_sensitivity.x * pointer x and y = the
\* W/S keyboard contribution with the pointer y contribution
\* (-mouse_translate_sensitivity.y * pointer y) added to it; its TranslateEye is
\* the keyboard panning alone.
C18_LeftOnlyChordedMode ==
    [][\A c \in Cams :
          (kind = "unreal" /\ MapperStep /\ IsFirstEnabled(c)
              /\ Unwrap(input').buttons = {"Left"}) =>
              LET i == Unwrap(input')
                  cd == SumMotion(i.motion)
                  ctrl == controllers[c]
                  kms == ctrl.keyboard_mvmt_sensitivity
                  pan == V2(kms * (Held(i.keys, "D") - Held(i.keys, "A")),
                            kms * (Held(i.keys, "E") - Held(i.keys, "Q")))
                  loc == V2(ctrl.rotate_sensitivity[1] * cd[1],
                            kms * (Held(i.keys, "W") - Held(i.keys, "S"))
                                - ctrl.mouse_translate_sensitivity[2] * cd[2])
              IN  emitted' = (IF pan = Zero2 THEN <<>> ELSE <<TranslateEye(pan)>>)
                             \o (IF loc = Zero2 THEN <<>> ELSE <<Locomotion(loc)>>)]_vars

\* Left button only, W held, the pointer moved up and sideways: one Locomotion
\* whose y is more than the pointer's contribution alone.
C18_Witness ==
    \E c \in Cams :
        /\ UnrealMapped(c)
        /\ Unwrap(input).buttons = {"Left"}
        /\ Unwrap(input).keys = {"W"}
        /\ SumMotion(Unwrap(input).motion)[1] # 0
        /\ SumMotion(Unwrap(input).motion)[2] < 0
        /\ Len(emitted) = 1
        /\ IsLocomotion(emitted[1])
        /\ emitted[1].d[2] > -controllers[c].mouse_translate_sensitivity[2]
                                * SumMotion(Unwrap(input).motion)[2]

\* The look direction of camera c is straight up or straight down.
LooksVertical(c) ==
    LET v == Sub3(transforms[c].target, transforms[c].eye)
    IN  v[1] = 0 /\ v[3] = 0 /\ v[2] # 0

\* C19: whatever Rotate deltas the frames bring, assert_not_looking_up at the
\* end of a resolver never fails, and no re-derived target is straight above
\* or below its eye.
C19_SingularityGuardNeverFails ==
    /\ outcome # "looking_up"
    /\ \A c \in Cams : ~LooksVertical(c)

\* A frame applied whose Rotate events pitch by more than the whole range from
\* the steepest allowed pitch: the camera still looks at the steepest allowed
\* pitch.
C19_Witness ==
    /\ outcome = "applied"
    /\ events = NoEvents
    /\ \E n \in 1..Len(emitted) :
          IsRotate(emitted[n]) /\ Abs(emitted[n].d[2]) = MaxTurn
    /\ \E c \in Cams :
          /\ IsFirstEnabled(c)
          /\ ~Degenerate(c)
          /\ Abs(from_vector(Unwrap(look_direction(transforms[c]))).pitch) = MaxPitch

\* The Unreal control_system returned this frame because eye = target.
SkippedDegenerate == kind = "unreal" /\ outcome = "no_direction"
\* The active camera's look direction is defined.
DirectionDefined == \E c \in Cams : IsFirstEnabled(c) /\ ~Degenerate(c)

\* C20: after a frame the Unreal control_system skipped because eye = target,
\* with the controller enabled and translation input in every frame, the look
\* direction is eventually defined again.
C20_DegenerateIsTransient == SkippedDegenerate ~> DirectionDefined

====
